---- MODULE Spec2Model ----
(***************************************************************************)
(* Model of PDEs/ConvectionDiffusionReactionFEMwithDirichletBC2d.py:       *)
(* the PDE coefficient model (class PDE), the assembly driver GenerateMat  *)
(* and the random parameter generator Para.AddParas.                       *)
(*                                                                         *)
(* Numbers.  Coordinates are exact rationals <<num, den>>; the code works  *)
(* in float64, whose rounding is not modelled.  Matrix values are integers *)
(* on an abstract scale on which the pruning threshold eps of line 136 is  *)
(* Eps units: the model keeps the comparisons |v| < eps and the equality   *)
(* of values, not their magnitudes.                                        *)
(***************************************************************************)
EXTENDS Integers, Sequences, FiniteSets, TLC

VARIABLES
    npState,    \* state of numpy's process-wide generator (np.random)
    pyState,    \* state of Python's process-wide generator (random)
    pde,        \* the PDE instance of the current run, or NoPDE
    dcall,      \* the last call of pde.diffusion_coefficient: point and outcome
    para,       \* Para.para: the dictionary the generator fills
    paraPc,     \* position inside Para.AddParas
    paraErr,    \* the exception AddParas ended with, or "none"
    handed,     \* the configurations the driver got from the generator
    pc,         \* position inside GenerateMat
    args,       \* the arguments of the current GenerateMat call
    space,      \* local `space` (with its mesh) of GenerateMat, or Unbound
    A,          \* local A: the sparse matrix being built
    B,          \* local B: convection matrix
    M,          \* local M: mass matrix
    F,          \* local F: load vector
    err,        \* the exception the run ended with, or "none"
    result,     \* the returned triple, or NoResult
    written,    \* what the writer was handed, one element per invocation
    log,        \* history: the steps of the current run, in the order they ran
    npDirty     \* history: the run began with numpy's generator in another
                \* state than the one its seed gives

vars == <<npState, pyState, pde, dcall, para, paraPc, paraErr, handed,
          pc, args, space, A, B, M, F, err, result, written, log, npDirty>>

procVars == <<npState, pyState>>
paraVars == <<para, paraPc, paraErr, handed>>
runVars  == <<pc, args, space, A, B, M, F, err, result, written, log, npDirty>>

----------------------------------------------------------------------------
(* Bounds of the model                                                     *)

MaxBlock == 3      \* blockx, blocky range over 1..MaxBlock
PtDen    == 4      \* sample points of the coefficient lookup are k/PtDen
RngMod   == 7      \* number of states of each modelled generator
MaxSeed  == 1      \* seeds range over 0..MaxSeed
MaxN     == 2      \* nx, ny range over 1..MaxN
MaxP     == 2      \* space_p of a GenerateMat call ranges over 1..MaxP

----------------------------------------------------------------------------
(* The two process-wide random generators                                  *)

\* One step of a generator: a full-period walk over 0..RngMod-1.
RngNext(s) == (s + 1) % RngMod

\* The generator state after n draws from state s: RngNext applied n times.
RngAfter(s, n) == (s + n) % RngMod

\* np.random.seed(seed) / random.seed(seed): the state is a function of the
\* seed alone.
SeedState(seed) == seed % RngMod

RECURSIVE Pow10(_)
Pow10(n) == IF n = 0 THEN 1 ELSE 10 * Pow10(n - 1)

\* 10**np.random.uniform(0.0, 5.0): the n-th draw from state s.  The
\* exponent, a float of [0,5), is modelled by its integer part 0..4.
CoefDraw(s, n) == Pow10(RngAfter(s, n) % 5)

\* 10**np.random.uniform(0.0, 5.0, (rows, cols)) drawn from state s: rows
\* of cols values, filled in row-major order.
CoefField(s, rows, cols) ==
    [j \in 1..rows |-> [i \in 1..cols |-> CoefDraw(s, (j - 1) * cols + i)]]

----------------------------------------------------------------------------
(* class PDE                                                               *)

NoPDE == [x0 |-> 0, x1 |-> 0, y0 |-> 0, y1 |-> 0,
          xstep |-> <<0, 1>>, ystep |-> <<0, 1>>,
          coef1 |-> <<>>, coef2 |-> <<>>]

\* PDE.__init__ with numpy's generator in state s.  xstep and ystep are the
\* rationals (x1-x0)/blockx and (y1-y0)/blocky; coef1 is drawn first, coef2
\* from the state coef1 left.
PDE(x0, x1, y0, y1, blockx, blocky, s) ==
    [x0 |-> x0, x1 |-> x1, y0 |-> y0, y1 |-> y1,
     xstep |-> <<x1 - x0, blockx>>,
     ystep |-> <<y1 - y0, blocky>>,
     coef1 |-> CoefField(s, blocky + 1, blockx + 1),
     coef2 |-> CoefField(RngAfter(s, (blocky + 1) * (blockx + 1)),
                         blocky + 1, blockx + 1)]

\* The generator state PDE.__init__ leaves behind.
PDEDraws(blockx, blocky) == 2 * (blocky + 1) * (blockx + 1)

\* v // step for rationals v = <<n, d>>, step = <<sn, sd>>, then astype(int).
FloorDiv(v, step) == (v[1] * step[2]) \div (v[2] * step[1])

\* numpy's check of one index k against an axis of length len: negative
\* indices count from the end, anything outside -len..len-1 is an IndexError.
IndexOK(k, len) == -len <= k /\ k < len
Wrap(k, len) == IF k < 0 THEN k + len ELSE k

\* arr[a, b] of a two-dimensional array held as a sequence of rows.
InBounds2(arr, a, b) == IndexOK(a, Len(arr)) /\ IndexOK(b, Len(arr[1]))
At2(arr, a, b) == arr[Wrap(a, Len(arr)) + 1][Wrap(b, Len(arr[1])) + 1]

IndexError == [raised |-> "IndexError", d00 |-> 0, d01 |-> 0, d10 |-> 0, d11 |-> 0]

\* The index pair diffusion_coefficient computes for point p (lines 76-81).
xidx(q, p) == FloorDiv(p.x, q.xstep)
yidx(q, p) == FloorDiv(p.y, q.ystep)

\* PDE.diffusion_coefficient at one point p = [x |-> <<n,d>>, y |-> <<n,d>>]:
\* the tensor, or the IndexError of the reads coef1[xidx,yidx], coef2[xidx,yidx].
diffusion_coefficient(q, p) ==
    IF InBounds2(q.coef1, xidx(q, p), yidx(q, p))
    THEN [raised |-> "none",
          d00 |-> At2(q.coef1, xidx(q, p), yidx(q, p)),
          d01 |-> 0,
          d10 |-> 0,
          d11 |-> At2(q.coef2, xidx(q, p), yidx(q, p))]
    ELSE IndexError

----------------------------------------------------------------------------
(* The finite-element library (fealpy, scipy): an external collaborator.   *)
(* A sparse matrix is [shape, data]: data lists the stored entries, in     *)
(* slot order, as [pos, val].  The model stores one entry per mesh vertex  *)
(* (its diagonal entry); each library operator is a deterministic function *)
(* of its arguments.                                                       *)

Eps == 2                    \* eps = 10**(-15) on the model's value scale
DiagOne == 4 * Eps          \* the unit diagonal of an eliminated boundary row

Abs(v) == IF v < 0 THEN -v ELSE v

NoMesh  == [nx |-> 0, ny |-> 0, meshtype |-> "none", p |-> 0]
Unbound == [kind |-> "unbound", p |-> 0, mesh |-> NoMesh]
NoMat   == [shape |-> <<0, 0>>, data |-> <<>>]

\* MF.boxmesh2d(domain, nx, ny, meshtype[, p])
boxmesh2d(nx, ny, meshtype, p) ==
    [nx |-> nx, ny |-> ny, meshtype |-> meshtype, p |-> p]

\* Degrees of freedom of the order-p Lagrange space on the structured mesh.
NDof(sp) == (sp.mesh.nx * sp.p + 1) * (sp.mesh.ny * sp.p + 1)

\* Slots: the vertices (i, j), i in 0..nx, j in 0..ny, numbered row by row.
NSlots(sp) == (sp.mesh.nx + 1) * (sp.mesh.ny + 1)
SlotI(sp, k) == (k - 1) % (sp.mesh.nx + 1)
SlotJ(sp, k) == (k - 1) \div (sp.mesh.nx + 1)
Min(a, b) == IF a < b THEN a ELSE b

\* The quadrature point the library evaluates a coefficient at for slot k:
\* a point strictly inside the cell at (or left of / below) the vertex, the
\* centre of a quadrilateral, a centroid of one of the two triangles.
QuadPoint(sp, k) ==
    LET ci == Min(SlotI(sp, k), sp.mesh.nx - 1)
        cj == Min(SlotJ(sp, k), sp.mesh.ny - 1)
        t  == (SlotI(sp, k) + SlotJ(sp, k)) % 2
    IN  IF sp.mesh.meshtype = "tri"
        THEN [x |-> <<3 * ci + 1 + t, 3 * sp.mesh.nx>>,
              y |-> <<3 * cj + 1 + t, 3 * sp.mesh.ny>>]
        ELSE [x |-> <<2 * ci + 1, 2 * sp.mesh.nx>>,
              y |-> <<2 * cj + 1, 2 * sp.mesh.ny>>]

\* A vertex on the boundary of the domain.
IsBoundary(sp, k) ==
    \/ SlotI(sp, k) \in {0, sp.mesh.nx}
    \/ SlotJ(sp, k) \in {0, sp.mesh.ny}

\* The sparse matrix of shape n x n storing f[k] at every slot of P.
SpFrom(n, slots, P, f) ==
    [shape |-> <<n, n>>,
     data  |-> SelectSeq([k \in 1..slots |-> [pos |-> k, val |-> f[k]]],
                         LAMBDA e : e.pos \in P)]

Stored(X) == {X.data[i].pos : i \in 1..Len(X.data)}
ValAt(X, k) ==
    IF k \in Stored(X)
    THEN X.data[CHOOSE i \in 1..Len(X.data) : X.data[i].pos = k].val
    ELSE 0
MaxPos(X) == IF X.data = <<>> THEN 0 ELSE X.data[Len(X.data)].pos

\* X + Y of two sparse matrices: the union of the patterns, values added.
SpAdd(X, Y) ==
    LET n == IF MaxPos(X) > MaxPos(Y) THEN MaxPos(X) ELSE MaxPos(Y)
    IN  SpFrom(X.shape[1], n, Stored(X) \cup Stored(Y),
               [k \in 1..n |-> ValAt(X, k) + ValAt(Y, k)])

\* PDE.convection_coefficient: the constant vector (-1, -1).
convection_coefficient(p) == <<-1, -1>>

\* PDE.reaction_coefficient: 1 + x**2 + y**2, as the rational <<num, den>>.
reaction_coefficient(p) ==
    <<p.x[2] * p.x[2] * p.y[2] * p.y[2]
        + p.x[1] * p.x[1] * p.y[2] * p.y[2]
        + p.y[1] * p.y[1] * p.x[2] * p.x[2],
      p.x[2] * p.x[2] * p.y[2] * p.y[2]>>

\* space.stiff_matrix(c=pde.diffusion_coefficient) raises what the
\* coefficient raises at any of its quadrature points.
StiffRaises(sp, q) ==
    \E k \in 1..NSlots(sp) :
        diffusion_coefficient(q, QuadPoint(sp, k)).raised # "none"

\* space.stiff_matrix(c=pde.diffusion_coefficient): the trace of the tensor
\* at the quadrature point, times a geometric weight of the slot.
stiff_matrix(sp, q) ==
    SpFrom(NDof(sp), NSlots(sp), 1..NSlots(sp),
           [k \in 1..NSlots(sp) |->
               LET d == diffusion_coefficient(q, QuadPoint(sp, k))
               IN  (d.d00 + d.d11) * (k % 2)])

\* space.convection_matrix(c=pde.convection_coefficient)
convection_matrix(sp) ==
    SpFrom(NDof(sp), NSlots(sp), 1..NSlots(sp),
           [k \in 1..NSlots(sp) |->
               LET c == convection_coefficient(QuadPoint(sp, k))
               IN  (c[1] + c[2]) * (k % 3)])

\* space.mass_matrix(c=pde.reaction_coefficient)
mass_matrix(sp) ==
    SpFrom(NDof(sp), NSlots(sp), 1..NSlots(sp),
           [k \in 1..NSlots(sp) |->
               LET r == reaction_coefficient(QuadPoint(sp, k))
               IN  r[1] \div r[2]])

\* space.source_vector(pde.source): one load value per slot.
source_vector(sp) == [k \in 1..NSlots(sp) |-> k]

\* DirichletBC(space, pde.dirichlet).apply(A, F, uh), the matrix: a boundary
\* row keeps a unit diagonal, an interior row is left as it is.
DirichletA(sp, X) ==
    SpFrom(X.shape[1], NSlots(sp), 1..NSlots(sp),
           [k \in 1..NSlots(sp) |->
               IF IsBoundary(sp, k) THEN DiagOne ELSE ValAt(X, k)])

\* ... and the vector: a boundary entry holds the prescribed value.
DirichletF(sp, X, f) ==
    [k \in 1..NSlots(sp) |-> IF IsBoundary(sp, k) THEN 1 ELSE f[k]]

\* A.data[np.abs(A.data) < eps] = 0
ZeroSmall(X) ==
    [shape |-> X.shape,
     data  |-> [i \in 1..Len(X.data) |->
                   [pos |-> X.data[i].pos,
                    val |-> IF Abs(X.data[i].val) < Eps
                            THEN 0 ELSE X.data[i].val]]]

\* A.eliminate_zeros()
eliminate_zeros(X) ==
    [shape |-> X.shape,
     data  |-> SelectSeq(X.data, LAMBDA e : e.val # 0)]

\* Faulty variant of Prune: the small entries are zeroed and the zeros are
\* left in the storage (eliminate_zeros forgotten).
Prune_keepZeros(X) == ZeroSmall(X)

\* Lines 136-138 of GenerateMat.
Prune(X) == eliminate_zeros(ZeroSmall(X))

----------------------------------------------------------------------------
(* Utility.WriteMatAndVec: the output writer                               *)

NoVec == <<>>

\* The containing directory of mat_path exists.
DirExists(mat_path) == mat_path = "out/A"

\* WriteMatAndVec(A, F, mat_type, mat_path, need_rhs): what one invocation
\* is handed and whether it succeeded.  It fails when the directory of
\* mat_path does not exist, and leaves A as it got it.
WriteMatAndVec(X, f, mat_type, mat_path, need_rhs) ==
    [A  |-> X,
     F  |-> IF need_rhs THEN f ELSE NoVec,
     ok |-> DirExists(mat_path)]

----------------------------------------------------------------------------
(* GenerateMat                                                             *)

NoArgs == [nx |-> 0, ny |-> 0, blockx |-> 0, blocky |-> 0,
           mat_type |-> "None", mat_path |-> "None", need_rhs |-> FALSE,
           seed |-> 0, meshtype |-> "none", space_p |-> 0]
NoResult == <<>>

\* The calls of GenerateMat the model makes.
ArgSet ==
    [nx : 1..MaxN, ny : 1..MaxN, blockx : 1..MaxBlock, blocky : 1..MaxBlock,
     mat_type : {"None"}, mat_path : {"out/A", "nodir/A"},
     need_rhs : BOOLEAN, seed : 0..MaxSeed,
     meshtype : {"tri", "quad", "hex"}, space_p : 1..MaxP]

\* An exception leaves GenerateMat: the run ends without a value.
Raise(e) ==
    /\ pc' = "failed"
    /\ err' = e

\* Faulty variant of GenerateMat_seed: np.random.seed is not called, numpy's
\* generator keeps the state earlier code left.
GenerateMat_seed_noNumpySeed ==
    /\ pc = "idle"
    /\ \E a \in ArgSet :
        /\ args' = a
        /\ pyState' = SeedState(a.seed)
        /\ npDirty' = (npState # SeedState(a.seed))
    /\ pc' = "pde"
    /\ log' = <<"seed">>
    /\ UNCHANGED <<npState, pde, dcall, space, A, B, M, F, err, result, written>>
    /\ UNCHANGED paraVars

\* The call and lines 109-110: both generators are seeded from the seed.
GenerateMat_seed ==
    /\ pc = "idle"
    /\ \E a \in ArgSet :
        /\ args' = a
        /\ npState' = SeedState(a.seed)
        /\ npDirty' = (npState # SeedState(a.seed))
        /\ pyState' = SeedState(a.seed)
    /\ pc' = "pde"
    /\ log' = <<"seed">>
    /\ UNCHANGED <<pde, dcall, space, A, B, M, F, err, result, written>>
    /\ UNCHANGED paraVars

\* Lines 111-116: the PDE over the unit square, its fields drawn from numpy's
\* generator.
GenerateMat_pde ==
    /\ pc = "pde"
    /\ pde' = PDE(0, 1, 0, 1, args.blockx, args.blocky, npState)
    /\ npState' = RngAfter(npState, PDEDraws(args.blockx, args.blocky))
    /\ pc' = "mesh"
    /\ log' = Append(log, "pde")
    /\ UNCHANGED <<npDirty, pyState, dcall, args, space, A, B, M, F, err, result, written>>
    /\ UNCHANGED paraVars

\* Lines 118-123: mesh and space by mesh type; no branch for any other type.
GenerateMat_mesh ==
    /\ pc = "mesh"
    /\ IF args.meshtype = "tri"
       THEN /\ space' = [kind |-> "Lagrange", p |-> args.space_p,
                         mesh |-> boxmesh2d(args.nx, args.ny, "tri", 1)]
            /\ log' = Append(log, "mesh")
       ELSE IF args.meshtype = "quad"
       THEN /\ space' = [kind |-> "ParametricLagrange", p |-> args.space_p,
                         mesh |-> boxmesh2d(args.nx, args.ny, "quad", args.space_p)]
            /\ log' = Append(log, "mesh")
       ELSE UNCHANGED <<space, log>>
    /\ pc' = "uh"
    /\ UNCHANGED <<npDirty, pde, dcall, args, A, B, M, F, err, result, written>>
    /\ UNCHANGED <<procVars, paraVars>>

\* Line 125: uh = space.function(); reading the unbound local raises.
GenerateMat_uh ==
    /\ pc = "uh"
    /\ IF space = Unbound
       THEN Raise("UnboundLocalError")
       ELSE pc' = "stiff" /\ UNCHANGED err
    /\ UNCHANGED <<npDirty, pde, dcall, args, space, A, B, M, F, result, written, log>>
    /\ UNCHANGED <<procVars, paraVars>>

\* Line 126: the stiffness matrix, or the IndexError of the coefficient.
GenerateMat_stiff ==
    /\ pc = "stiff"
    /\ IF StiffRaises(space, pde)
       THEN Raise("IndexError") /\ UNCHANGED <<A, log>>
       ELSE /\ A' = stiff_matrix(space, pde)
            /\ pc' = "conv"
            /\ log' = Append(log, "stiff")
            /\ UNCHANGED err
    /\ UNCHANGED <<npDirty, pde, dcall, args, space, B, M, F, result, written>>
    /\ UNCHANGED <<procVars, paraVars>>

\* Line 127
GenerateMat_conv ==
    /\ pc = "conv"
    /\ B' = convection_matrix(space)
    /\ pc' = "mass"
    /\ log' = Append(log, "conv")
    /\ UNCHANGED <<npDirty, pde, dcall, args, space, A, M, F, err, result, written>>
    /\ UNCHANGED <<procVars, paraVars>>

\* Line 128
GenerateMat_mass ==
    /\ pc = "mass"
    /\ M' = mass_matrix(space)
    /\ pc' = "source"
    /\ log' = Append(log, "mass")
    /\ UNCHANGED <<npDirty, pde, dcall, args, space, A, B, F, err, result, written>>
    /\ UNCHANGED <<procVars, paraVars>>

\* Line 129
GenerateMat_source ==
    /\ pc = "source"
    /\ F' = source_vector(space)
    /\ pc' = "addB"
    /\ log' = Append(log, "load")
    /\ UNCHANGED <<npDirty, pde, dcall, args, space, A, B, M, err, result, written>>
    /\ UNCHANGED <<procVars, paraVars>>

\* Line 130: A += B
GenerateMat_addB ==
    /\ pc = "addB"
    /\ A' = SpAdd(A, B)
    /\ pc' = "addM"
    /\ log' = Append(log, "A+=B")
    /\ UNCHANGED <<npDirty, pde, dcall, args, space, B, M, F, err, result, written>>
    /\ UNCHANGED <<procVars, paraVars>>

\* Line 131: A += M
GenerateMat_addM ==
    /\ pc = "addM"
    /\ A' = SpAdd(A, M)
    /\ pc' = "bc"
    /\ log' = Append(log, "A+=M")
    /\ UNCHANGED <<npDirty, pde, dcall, args, space, B, M, F, err, result, written>>
    /\ UNCHANGED <<procVars, paraVars>>

\* Faulty variant of GenerateMat_bc: the boundary condition reaches the
\* stiffness matrix alone, convection and mass are added after it.
GenerateMat_bc_stiffOnly ==
    /\ pc = "bc"
    /\ A' = SpAdd(SpAdd(DirichletA(space, stiff_matrix(space, pde)), B), M)
    /\ F' = DirichletF(space, A, F)
    /\ pc' = "prune"
    /\ log' = Append(log, "bc")
    /\ UNCHANGED <<npDirty, pde, dcall, args, space, B, M, err, result, written>>
    /\ UNCHANGED <<procVars, paraVars>>

\* Lines 133-134: A, F = bc.apply(A, F, uh)
GenerateMat_bc ==
    /\ pc = "bc"
    /\ A' = DirichletA(space, A)
    /\ F' = DirichletF(space, A, F)
    /\ pc' = "prune"
    /\ log' = Append(log, "bc")
    /\ UNCHANGED <<npDirty, pde, dcall, args, space, B, M, err, result, written>>
    /\ UNCHANGED <<procVars, paraVars>>

\* Lines 136-138
GenerateMat_prune ==
    /\ pc = "prune"
    /\ A' = Prune(A)
    /\ pc' = "write"
    /\ log' = Append(log, "prune")
    /\ UNCHANGED <<npDirty, pde, dcall, args, space, B, M, F, err, result, written>>
    /\ UNCHANGED <<procVars, paraVars>>

\* Faulty variant of GenerateMat_write: a failure of the writer is swallowed
\* and the run goes on to return.
GenerateMat_write_swallow ==
    /\ pc = "write"
    /\ written' = Append(written, WriteMatAndVec(A, F, args.mat_type,
                                                 args.mat_path, args.need_rhs))
    /\ log' = Append(log, "write")
    /\ pc' = "return"
    /\ UNCHANGED <<npDirty, pde, dcall, args, space, A, B, M, F, err, result>>
    /\ UNCHANGED <<procVars, paraVars>>

\* Line 143: the writer is invoked; its failure leaves GenerateMat as it is
\* raised (no handler around the call).
GenerateMat_write ==
    /\ pc = "write"
    /\ LET w == WriteMatAndVec(A, F, args.mat_type, args.mat_path, args.need_rhs)
       IN  /\ written' = Append(written, w)
           /\ log' = Append(log, "write")
           /\ IF w.ok
              THEN pc' = "return" /\ UNCHANGED err
              ELSE Raise("IOError")
    /\ UNCHANGED <<npDirty, pde, dcall, args, space, A, B, M, F, result>>
    /\ UNCHANGED <<procVars, paraVars>>

\* Lines 145-147: the triple of the local A.
GenerateMat_return ==
    /\ pc = "return"
    /\ result' = <<A.shape[1], A.shape[2], Len(A.data)>>
    /\ pc' = "done"
    /\ log' = Append(log, "return")
    /\ UNCHANGED <<npDirty, pde, dcall, args, space, A, B, M, F, err, written>>
    /\ UNCHANGED <<procVars, paraVars>>

\* The caller has the outcome; the locals of the run are gone.  The two
\* generators keep the state the run left.
Finish ==
    /\ pc \in {"done", "failed"}
    /\ pc' = "idle"
    /\ args' = NoArgs
    /\ pde' = NoPDE
    /\ space' = Unbound
    /\ A' = NoMat /\ B' = NoMat /\ M' = NoMat /\ F' = NoVec
    /\ err' = "none"
    /\ result' = NoResult
    /\ written' = <<>>
    /\ log' = <<>>
    /\ npDirty' = FALSE
    /\ UNCHANGED <<dcall>>
    /\ UNCHANGED <<procVars, paraVars>>

\* Between two runs other code of the process draws from either generator.
OtherDraw ==
    /\ pc = "idle"
    /\ \/ npState' = RngNext(npState) /\ UNCHANGED pyState
       \/ pyState' = RngNext(pyState) /\ UNCHANGED npState
    /\ UNCHANGED <<pde, dcall>>
    /\ UNCHANGED <<paraVars, runVars>>

NoCall == [p |-> [x |-> <<0, 1>>, y |-> <<0, 1>>], called |-> FALSE,
           val |-> IndexError]
NoPara == [k \in {} |-> 0]

InitIdle ==
    /\ pde = NoPDE
    /\ dcall = NoCall
    /\ para = NoPara /\ paraPc = "start" /\ paraErr = "none" /\ handed = NoPara
    /\ pc = "idle" /\ args = NoArgs /\ space = Unbound
    /\ A = NoMat /\ B = NoMat /\ M = NoMat /\ F = NoVec
    /\ err = "none" /\ result = NoResult /\ written = <<>> /\ log = <<>>
    /\ npDirty = FALSE

\* A fresh process: both generators in their start state.
InitGen ==
    /\ npState = 0
    /\ pyState = 0
    /\ InitIdle

NextGen ==
    \/ GenerateMat_seed
    \/ GenerateMat_pde
    \/ GenerateMat_mesh
    \/ GenerateMat_uh
    \/ GenerateMat_stiff
    \/ GenerateMat_conv
    \/ GenerateMat_mass
    \/ GenerateMat_source
    \/ GenerateMat_addB
    \/ GenerateMat_addM
    \/ GenerateMat_bc
    \/ GenerateMat_prune
    \/ GenerateMat_write
    \/ GenerateMat_return
    \/ Finish
    \/ OtherDraw

SpecGen == InitGen /\ [][NextGen]_vars

----------------------------------------------------------------------------
(* The coefficient lookup on its own: a PDE built as GenerateMat builds it *)
(* (lines 109-115), then calls of diffusion_coefficient at points of the   *)
(* closed domain.                                                          *)

InitCoef ==
    /\ \E seed \in 0..MaxSeed, blockx \in 1..MaxBlock, blocky \in 1..MaxBlock :
        /\ pde = PDE(0, 1, 0, 1, blockx, blocky, SeedState(seed))
        /\ npState = RngAfter(SeedState(seed), PDEDraws(blockx, blocky))
        /\ pyState = SeedState(seed)
    /\ dcall = NoCall
    /\ para = NoPara /\ paraPc = "start" /\ paraErr = "none" /\ handed = NoPara
    /\ pc = "idle" /\ args = NoArgs /\ space = Unbound
    /\ A = NoMat /\ B = NoMat /\ M = NoMat /\ F = NoVec
    /\ err = "none" /\ result = NoResult /\ written = <<>> /\ log = <<>>
    /\ npDirty = FALSE

\* One call pde.diffusion_coefficient(p), p = (xn/PtDen, yn/PtDen).
diffusion_call ==
    /\ \E xn \in 0..PtDen, yn \in 0..PtDen :
        LET p == [x |-> <<xn, PtDen>>, y |-> <<yn, PtDen>>]
        IN  dcall' = [p |-> p, called |-> TRUE,
                      val |-> diffusion_coefficient(pde, p)]
    /\ UNCHANGED <<pde, procVars, paraVars, runVars>>

NextCoef == diffusion_call

SpecCoef == InitCoef /\ [][NextCoef]_vars

----------------------------------------------------------------------------
(* Parameters.Parameter: the base class of Para                            *)

\* self.para[name] = value
Put(d, name, value) == (name :> value) @@ d

\* Parameter.RandChoose(name, choices): the values one call may store.
RandChoose(choices) == choices

\* Parameter.DefineRandInt(name, lo, hi): an integer of lo..hi, both ends
\* included.
DefineRandInt(lo, hi) == lo..hi

\* Parameter.CopyValue(src, dst) finds src in the dictionary.
HasKey(d, name) == name \in DOMAIN d

----------------------------------------------------------------------------
(* Para.AddParas                                                           *)

\* Para(): an empty dictionary; what an earlier generation left is gone.
Para_init ==
    /\ paraPc \in {"handed", "failed"}
    /\ para' = NoPara
    /\ paraPc' = "start"
    /\ paraErr' = "none"
    /\ handed' = NoPara
    /\ UNCHANGED <<pde, dcall, procVars, runVars>>

\* Line 154
AddParas_meshtype ==
    /\ paraPc = "start"
    /\ \E m \in RandChoose({"tri", "quad"}) : para' = Put(para, "meshtype", m)
    /\ paraPc' = "space_p"
    /\ UNCHANGED <<paraErr, handed, pde, dcall, procVars, runVars>>

\* Line 155
AddParas_space_p ==
    /\ paraPc = "space_p"
    /\ \E p \in DefineRandInt(1, 4) : para' = Put(para, "space_p", p)
    /\ paraPc' = "ranges"
    /\ UNCHANGED <<paraErr, handed, pde, dcall, procVars, runVars>>

\* Faulty variant of AddParas_ranges: the order-3 branch draws from the
\* ranges of order 2.
AddParas_ranges_pasted ==
    /\ paraPc = "ranges"
    /\ IF para["space_p"] = 1
       THEN \E nx \in DefineRandInt(50, 200), blockx \in DefineRandInt(20, 40) :
                para' = Put(Put(para, "nx", nx), "blockx", blockx)
       ELSE IF para["space_p"] \in {2, 3}
       THEN \E nx \in DefineRandInt(50, 110), blockx \in DefineRandInt(20, 40) :
                para' = Put(Put(para, "nx", nx), "blockx", blockx)
       ELSE UNCHANGED para
    /\ paraPc' = "copy_nx"
    /\ UNCHANGED <<paraErr, handed, pde, dcall, procVars, runVars>>

\* Faulty variant of AddParas_ranges: the last branch is an else, taken by
\* every order that is neither 1 nor 2.
AddParas_ranges_else ==
    /\ paraPc = "ranges"
    /\ IF para["space_p"] = 1
       THEN \E nx \in DefineRandInt(50, 200), blockx \in DefineRandInt(20, 40) :
                para' = Put(Put(para, "nx", nx), "blockx", blockx)
       ELSE IF para["space_p"] = 2
       THEN \E nx \in DefineRandInt(50, 110), blockx \in DefineRandInt(20, 40) :
                para' = Put(Put(para, "nx", nx), "blockx", blockx)
       ELSE \E nx \in DefineRandInt(40, 70), blockx \in DefineRandInt(20, 30) :
                para' = Put(Put(para, "nx", nx), "blockx", blockx)
    /\ paraPc' = "copy_nx"
    /\ UNCHANGED <<paraErr, handed, pde, dcall, procVars, runVars>>

\* Lines 157-165: nx and blockx by order; no branch for any other order.
AddParas_ranges ==
    /\ paraPc = "ranges"
    /\ IF para["space_p"] = 1
       THEN \E nx \in DefineRandInt(50, 200), blockx \in DefineRandInt(20, 40) :
                para' = Put(Put(para, "nx", nx), "blockx", blockx)
       ELSE IF para["space_p"] = 2
       THEN \E nx \in DefineRandInt(50, 110), blockx \in DefineRandInt(20, 40) :
                para' = Put(Put(para, "nx", nx), "blockx", blockx)
       ELSE IF para["space_p"] = 3
       THEN \E nx \in DefineRandInt(40, 70), blockx \in DefineRandInt(20, 30) :
                para' = Put(Put(para, "nx", nx), "blockx", blockx)
       ELSE UNCHANGED para
    /\ paraPc' = "copy_nx"
    /\ UNCHANGED <<paraErr, handed, pde, dcall, procVars, runVars>>

\* Line 167: self.CopyValue('nx', 'ny')
AddParas_copy_nx ==
    /\ paraPc = "copy_nx"
    /\ IF HasKey(para, "nx")
       THEN /\ para' = Put(para, "ny", para["nx"])
            /\ paraPc' = "copy_blockx"
            /\ UNCHANGED paraErr
       ELSE /\ paraErr' = "KeyError: nx"
            /\ paraPc' = "failed"
            /\ UNCHANGED para
    /\ UNCHANGED <<handed, pde, dcall, procVars, runVars>>

\* Faulty variant of AddParas_copy_blockx: 'nx' is copied to 'blocky'.
AddParas_copy_blockx_fromNx ==
    /\ paraPc = "copy_blockx"
    /\ IF HasKey(para, "nx")
       THEN /\ para' = Put(para, "blocky", para["nx"])
            /\ paraPc' = "done"
            /\ UNCHANGED paraErr
       ELSE /\ paraErr' = "KeyError: nx"
            /\ paraPc' = "failed"
            /\ UNCHANGED para
    /\ UNCHANGED <<handed, pde, dcall, procVars, runVars>>

\* Line 168: self.CopyValue('blockx', 'blocky')
AddParas_copy_blockx ==
    /\ paraPc = "copy_blockx"
    /\ IF HasKey(para, "blockx")
       THEN /\ para' = Put(para, "blocky", para["blockx"])
            /\ paraPc' = "done"
            /\ UNCHANGED paraErr
       ELSE /\ paraErr' = "KeyError: blockx"
            /\ paraPc' = "failed"
            /\ UNCHANGED para
    /\ UNCHANGED <<handed, pde, dcall, procVars, runVars>>

\* The driver hands the configuration AddParas returned to GenerateMat.
Handoff ==
    /\ paraPc = "done"
    /\ handed' = para
    /\ paraPc' = "handed"
    /\ UNCHANGED <<para, paraErr, pde, dcall, procVars, runVars>>

InitPara ==
    /\ npState = 0
    /\ pyState = 0
    /\ InitIdle

NextPara ==
    \/ Para_init
    \/ AddParas_meshtype
    \/ AddParas_space_p
    \/ AddParas_ranges
    \/ AddParas_copy_nx
    \/ AddParas_copy_blockx
    \/ Handoff

SpecPara == InitPara /\ [][NextPara]_vars

----------------------------------------------------------------------------
(* Properties                                                              *)

\* The point lies strictly inside the domain of q.
StrictlyInside(q, p) ==
    /\ q.x0 * p.x[2] < p.x[1] /\ p.x[1] < q.x1 * p.x[2]
    /\ q.y0 * p.y[2] < p.y[1] /\ p.y[1] < q.y1 * p.y[2]

\* floor((x - x0)/xstep) and floor((y - y0)/ystep): the column and the row
\* of the cell of p.
CellI(q, p) == FloorDiv(<<p.x[1] - q.x0 * p.x[2], p.x[2]>>, q.xstep)
CellJ(q, p) == FloorDiv(<<p.y[1] - q.y0 * p.y[2], p.y[2]>>, q.ystep)

\* C1: at every point strictly inside the domain, for every block grid,
\* diffusion_coefficient returns the diagonal tensor with [0,0] = coef1[j,i]
\* and [1,1] = coef2[j,i], i the column (x) index and j the row (y) index of
\* the point's cell, and zero off-diagonal entries.
C1_LookupByRowAndColumn ==
    (dcall.called /\ StrictlyInside(pde, dcall.p)) =>
        /\ dcall.val.raised = "none"
        /\ dcall.val.d00 = pde.coef1[CellJ(pde, dcall.p) + 1][CellI(pde, dcall.p) + 1]
        /\ dcall.val.d11 = pde.coef2[CellJ(pde, dcall.p) + 1][CellI(pde, dcall.p) + 1]
        /\ dcall.val.d01 = 0
        /\ dcall.val.d10 = 0

\* C2: at every point of the closed domain, for every block grid with
\* blockx, blocky >= 1, the indices diffusion_coefficient reads coef1 and
\* coef2 with are inside the arrays (first index <= blocky, second index <=
\* blockx) and the lookup raises no out-of-bounds fault.
C2_LookupInBounds ==
    dcall.called =>
        /\ xidx(pde, dcall.p) <= Len(pde.coef1) - 1
        /\ yidx(pde, dcall.p) <= Len(pde.coef1[1]) - 1
        /\ dcall.val.raised = "none"

\* The run is past the resolution of the mesh type (lines 118-123).
PastMeshResolution == pc \notin {"idle", "pde", "mesh"}

\* C3: a run with a meshtype other than 'tri' and 'quad' fails with a
\* configuration error where the mesh type is resolved: past that point the
\* run has failed with such an error, it never goes on with an unbound space.
C3_InvalidMeshtypeRejected ==
    (PastMeshResolution /\ args.meshtype \notin {"tri", "quad"}) =>
        /\ pc = "failed"
        /\ err \in {"ConfigError", "ValueError"}

\* What a run with arguments a computes, as a function of a alone.
ExpectedPDE(a) == PDE(0, 1, 0, 1, a.blockx, a.blocky, SeedState(a.seed))
ExpectedSpace(a) ==
    IF a.meshtype = "tri"
    THEN [kind |-> "Lagrange", p |-> a.space_p,
          mesh |-> boxmesh2d(a.nx, a.ny, "tri", 1)]
    ELSE [kind |-> "ParametricLagrange", p |-> a.space_p,
          mesh |-> boxmesh2d(a.nx, a.ny, "quad", a.space_p)]
ExpectedA(a) ==
    Prune(DirichletA(ExpectedSpace(a),
                     SpAdd(SpAdd(stiff_matrix(ExpectedSpace(a), ExpectedPDE(a)),
                                 convection_matrix(ExpectedSpace(a))),
                           mass_matrix(ExpectedSpace(a)))))

\* C4: the coefficient fields, the written matrix and the returned triple
\* of a run are functions of its arguments alone, whatever state earlier
\* runs and draws left the two generators in; both generators hold the
\* state of the seed before the first draw of the run.
C4_Determinism ==
    /\ pc # "idle" => pyState = SeedState(args.seed)
    /\ pc = "pde" => npState = SeedState(args.seed)
    /\ pc \notin {"idle", "pde"} =>
          /\ pde.coef1 = ExpectedPDE(args).coef1
          /\ pde.coef2 = ExpectedPDE(args).coef2
    /\ \A n \in 1..Len(written) : written[n].A = ExpectedA(args)
    /\ pc = "done" =>
          result = <<ExpectedA(args).shape[1], ExpectedA(args).shape[2],
                     Len(ExpectedA(args).data)>>

\* A run that began with numpy's generator in a foreign state has returned.
C4_Witness == pc = "done" /\ npDirty /\ result # NoResult

\* The matrix the boundary condition left, before pruning.
BCMatrix ==
    DirichletA(space, SpAdd(SpAdd(stiff_matrix(space, pde), B), M))

Entries(X) == {X.data[n] : n \in 1..Len(X.data)}

\* C7: the matrix handed to the writer stores no entry of absolute value
\* below eps (no explicit zero in particular), and every entry of the
\* boundary-conditioned matrix of absolute value at least eps is handed over
\* with its value.
C7_PrunedBeforeWrite ==
    \A n \in 1..Len(written) :
        /\ \A e \in Entries(written[n].A) : Abs(e.val) >= Eps
        /\ \A e \in Entries(BCMatrix) :
              Abs(e.val) >= Eps => e \in Entries(written[n].A)

\* The writer got a matrix from which pruning removed an entry and kept one.
C7_Witness ==
    /\ written # <<>>
    /\ \E e \in Entries(BCMatrix) : Abs(e.val) < Eps
    /\ \E e \in Entries(BCMatrix) : Abs(e.val) >= Eps
    /\ Len(written[1].A.data) < Len(BCMatrix.data)

\* C8: a run ends in one of two ways: it returns a triple, the writer having
\* been invoked exactly once and having succeeded, or it fails with an error
\* and returns nothing.  A run with an invalid meshtype never invokes the
\* writer; a failure of the writer is the failure of the run.
C8_TwoOutcomes ==
    /\ pc = "done" =>
          /\ Len(result) = 3
          /\ err = "none"
          /\ Len(written) = 1
          /\ written[1].ok
    /\ pc = "failed" => (result = NoResult /\ err # "none")
    /\ result # NoResult => pc = "done"
    /\ (pc # "idle" /\ args.meshtype \notin {"tri", "quad"}) => written = <<>>
    /\ \A n \in 1..Len(written) :
          ~written[n].ok => (pc = "failed" /\ err = "IOError")

\* The writer failed and the run failed with its error.
C8_Witness ==
    /\ pc = "failed"
    /\ err = "IOError"
    /\ Len(written) = 1
    /\ ~written[1].ok

FullOrder ==
    <<"seed", "pde", "mesh", "stiff", "conv", "mass", "load",
      "A+=B", "A+=M", "bc", "prune", "write", "return">>

\* C9: the steps of a run occur in the order seeding, PDE, mesh and space,
\* stiffness, convection, mass, load, A += B, A += M, boundary condition,
\* pruning, write, return, and a successful run has them all; the boundary
\* condition is applied to stiffness + convection + mass, and the returned
\* triple is that of the pruned matrix that was written.
C9_StepOrder ==
    /\ Len(log) <= Len(FullOrder)
    /\ log = SubSeq(FullOrder, 1, Len(log))
    /\ pc = "done" =>
          /\ log = FullOrder
          /\ A = Prune(BCMatrix)
          /\ written[1].A = A
          /\ result = <<A.shape[1], A.shape[2], Len(A.data)>>

\* A successful run whose boundary condition and pruning both changed the
\* matrix.
C9_Witness ==
    /\ pc = "done"
    /\ BCMatrix # SpAdd(SpAdd(stiff_matrix(space, pde), B), M)
    /\ A # BCMatrix

\* AddParas has returned a configuration.
Produced == paraPc \in {"done", "handed"}

\* C5: a configuration AddParas returns has meshtype 'tri' or 'quad' and nx,
\* blockx in the ranges of its order: order 1, 50..200 and 20..40; order 2,
\* 50..110 and 20..40; order 3, 40..70 and 20..30.
C5_OrderRanges ==
    Produced =>
        /\ para["meshtype"] \in {"tri", "quad"}
        /\ para["space_p"] = 1 =>
              (para["nx"] \in 50..200 /\ para["blockx"] \in 20..40)
        /\ para["space_p"] = 2 =>
              (para["nx"] \in 50..110 /\ para["blockx"] \in 20..40)
        /\ para["space_p"] = 3 =>
              (para["nx"] \in 40..70 /\ para["blockx"] \in 20..30)

\* An order-3 configuration at the upper ends of its ranges.
C5_Witness ==
    /\ Produced
    /\ para["space_p"] = 3
    /\ para["nx"] = 70
    /\ para["blockx"] = 30

\* C6: a configuration AddParas returns holds the six parameters meshtype,
\* space_p, nx, ny, blockx, blocky, with ny = nx and blocky = blockx.
C6_SixParameters ==
    Produced =>
        /\ DOMAIN para = {"meshtype", "space_p", "nx", "ny", "blockx", "blocky"}
        /\ para["ny"] = para["nx"]
        /\ para["blocky"] = para["blockx"]

\* A configuration whose resolution and block count differ.
C6_Witness ==
    /\ Produced
    /\ para["space_p"] = 1
    /\ para["ny"] = 200
    /\ para["blocky"] = 20

\* C10: once order 4 is drawn, neither nx nor blockx is defined, the
\* generation fails with the lookup failure of 'nx' at the step that copies
\* nx to ny, and no order-4 configuration is handed to GenerateMat.
C10_OrderFourFails ==
    /\ (HasKey(para, "space_p") /\ para["space_p"] = 4) =>
          /\ ~HasKey(para, "nx")
          /\ ~HasKey(para, "blockx")
          /\ ~HasKey(para, "ny")
          /\ paraPc \in {"ranges", "copy_nx", "failed"}
          /\ paraPc = "failed" => paraErr = "KeyError: nx"
          /\ handed = NoPara
    /\ handed # NoPara => handed["space_p"] # 4

\* Order 4 was drawn and the generation has failed.
C10_Witness ==
    /\ paraPc = "failed"
    /\ para["space_p"] = 4
    /\ paraErr = "KeyError: nx"

====
